---- MODULE Spec2Model ----
(***************************************************************************)
(* A model of the CAT pass of src/src/CatPass.cpp: the type classifier     *)
(* (collectTypeInfo), the worklist reaching-definition / alias / points-to *)
(* analysis (RDA, RDAinBB) and the two rewriter passes                     *)
(* (constantFoldAndAlgSimp, constantProp), run by runOnFunction on a       *)
(* bounded family of IR functions.                                         *)
(*                                                                         *)
(* Values are integers: 0 is UNKNOWN (nullptr), 1..99 are instructions     *)
(* (the index in inst), 101.. are function arguments, 201.. are globals,   *)
(* and ConstBase + k is the ConstantInt k.                                 *)
(*                                                                         *)
(* Left out, because the code never reads them: escIN/escOUT (never        *)
(* written) and cacheIN/cacheOUT (only ever set to NO_CACHE; the reader is *)
(* commented out at lines 571-574 and 888-893).  Keys that operator[]      *)
(* creates with an empty set in the RDA and points-to maps are not kept:   *)
(* no code looks a key of those maps up with find().  Keys of the alias    *)
(* maps are kept, because addDef and addPointTo test them with find().     *)
(* Sets of Value* are walked in ascending value number where the order can *)
(* matter (std::set orders by address, nullptr first).                     *)
(* The i64 constants of the bounded family stay far from 2^63, so the      *)
(* IRBuilder's folded add/sub is the integer sum/difference.               *)
(***************************************************************************)
EXTENDS Integers, Sequences, FiniteSets, TLC

\* ------------------------------------------------------------------ bounds
MaxConst == 1
MaxRuns == 2

\* ------------------------------------------------------------------ values
UNKNOWN == 0
ConstBase == 1000
ConstSpan == 500
ArgY == 101

CI(k) == ConstBase + k
IsConstantInt(v) == v >= ConstBase - ConstSpan
ConstVal(v) == v - ConstBase
Consts == 0..MaxConst

ModRefInfo == {"NoModRef", "Ref", "Mod", "ModRef", "MustMod"}

\* ------------------------------------------------------------ instructions
Instr(op, fn, ops, blks, ptr, i8) ==
  [op |-> op, fn |-> fn, ops |-> ops, blks |-> blks, ptr |-> ptr, i8 |-> i8]
Call(fn, ops, ptr, i8) == Instr("call", fn, ops, <<>>, ptr, i8)
CATnew(k) == Call("CAT_new", <<CI(k)>>, TRUE, TRUE)
CATset(x, v) == Call("CAT_set", <<x, v>>, FALSE, FALSE)
CATadd(d, a, b) == Call("CAT_add", <<d, a, b>>, FALSE, FALSE)
CATsub(d, a, b) == Call("CAT_sub", <<d, a, b>>, FALSE, FALSE)
CATget(x) == Call("CAT_get", <<x>>, FALSE, FALSE)
CATdestroy(x) == Call("CAT_destroy", <<x>>, FALSE, FALSE)
Printf(ops) == Call("printf", ops, FALSE, FALSE)
Opaque(ops) == Call("opaque", ops, FALSE, FALSE)
OpaqueBox(ops) == Call("opaque", ops, TRUE, TRUE)
OpaquePtr(ops) == Call("opaque", ops, TRUE, FALSE)
Alloca == Instr("alloca", "", <<>>, <<>>, TRUE, FALSE)
Store(v, p) == Instr("store", "", <<v, p>>, <<>>, FALSE, FALSE)
Load(p) == Instr("load", "", <<p>>, <<>>, TRUE, TRUE)
Phi(vals, blks) == Instr("phi", "", vals, blks, TRUE, TRUE)
Select(c, a, b) == Instr("select", "", <<c, a, b>>, <<>>, TRUE, TRUE)
Br(ops) == Instr("br", "", ops, <<>>, FALSE, FALSE)
Ret(ops) == Instr("ret", "", ops, <<>>, FALSE, FALSE)
Other(ops) == Instr("other", "", ops, <<>>, FALSE, FALSE)

IsCall(I, fn) == I.op = "call" /\ I.fn = fn
IsOpaque(I) ==
  /\ I.op = "call"
  /\ I.fn \notin {"CAT_new", "CAT_add", "CAT_sub", "CAT_set", "CAT_get",
                  "CAT_destroy", "printf"}

\* ---------------------------------------------------------------- programs
\* A function: its blocks (instruction numbers in program order), the CFG
\* successors of each block, the instructions, the arguments, the pairs
\* (call, pointer) the alias oracle is asked about, and the parameters the
\* family was built from.
Prog(shape, variant, k1, k2, blocks, succ, inst, args, oq) ==
  [shape |-> shape, variant |-> variant, k1 |-> k1, k2 |-> k2,
   blocks |-> blocks, succ |-> succ, inst |-> inst, args |-> args, oq |-> oq]

\* a = CAT_new(k1); b = CAT_new(k2); r = CAT_new(0); CAT_op(r, a, b);
\* v = CAT_get(r); return v   (3 and 4 are the constants of the scenario)
FoldProgs ==
  { Prog("fold", op, k1, k2, << <<1, 2, 3, 4, 5, 6>> >>, << <<>> >>,
         << CATnew(k1), CATnew(k2), CATnew(0),
            Call(op, <<3, 1, 2>>, FALSE, FALSE), CATget(3), Ret(<<5>>) >>,
         {}, {})
      : op \in {"CAT_add", "CAT_sub"}, k1 \in Consts \cup {3},
        k2 \in Consts \cup {4} }

\* x = CAT_new(k); v = CAT_get(x); return v, in the entry block ("entry"),
\* or in the exit block of a do-while loop whose blocks hold no CAT value
\* ("loop"), or of one entered after c = CAT_new(k2) ("preloop").
NewGetProgs ==
  { Prog("newget", "entry", k, 0, << <<1, 2, 3>> >>, << <<>> >>,
         << CATnew(k), CATget(1), Ret(<<2>>) >>, {}, {}) : k \in Consts }
  \cup
  { Prog("newget", "loop", k, 0,
         << <<1, 2>>, <<3>>, <<4>>, <<5, 6, 7>> >>,
         << <<2>>, <<3>>, <<2, 4>>, <<>> >>,
         << Other(<<>>), Br(<<>>), Br(<<>>), Br(<<1>>),
            CATnew(k), CATget(5), Ret(<<6>>) >>, {}, {}) : k \in Consts }
  \cup
  { Prog("newget", "preloop", k, k2,
         << <<1, 2>>, <<3>>, <<4>>, <<5, 6, 7>> >>,
         << <<2>>, <<3>>, <<2, 4>>, <<>> >>,
         << CATnew(k2), Br(<<>>), Br(<<>>), Br(<<>>),
            CATnew(k), CATget(5), Ret(<<6>>) >>, {}, {})
      : k \in Consts, k2 \in Consts }

\* x = CAT_new(0); if (c) CAT_set(x, k1) else CAT_set(x, k2); v = CAT_get(x)
\* "entry": the diamond starts in the entry block; "triangle": the first
\* CAT_set is in the entry block, which also branches to the merge block;
\* "loop": the diamond follows a do-while loop that holds no CAT value.
DiamondProgs ==
  { Prog("diamond", "entry", k1, k2,
         << <<1, 2>>, <<3, 4>>, <<5, 6>>, <<7, 8>> >>,
         << <<2, 3>>, <<4>>, <<4>>, <<>> >>,
         << CATnew(0), Br(<<>>), CATset(1, CI(k1)), Br(<<>>),
            CATset(1, CI(k2)), Br(<<>>), CATget(1), Ret(<<7>>) >>, {}, {})
      : k1 \in Consts, k2 \in Consts }
  \cup
  { Prog("diamond", "triangle", k1, k2,
         << <<1, 2, 3>>, <<4, 5>>, <<6, 7>> >>,
         << <<3, 2>>, <<3>>, <<>> >>,
         << CATnew(0), CATset(1, CI(k1)), Br(<<>>),
            CATset(1, CI(k2)), Br(<<>>), CATget(1), Ret(<<6>>) >>, {}, {})
      : k1 \in Consts, k2 \in Consts }
  \cup
  { Prog("diamond", "loop", k1, k2,
         << <<1>>, <<2>>, <<3>>, <<4, 5>>, <<6, 7>>, <<8, 9>>, <<10, 11>> >>,
         << <<2>>, <<3>>, <<2, 4>>, <<5, 6>>, <<7>>, <<7>>, <<>> >>,
         << Br(<<>>), Br(<<>>), Br(<<>>), CATnew(0), Br(<<>>),
            CATset(4, CI(k1)), Br(<<>>), CATset(4, CI(k2)), Br(<<>>),
            CATget(4), Ret(<<10>>) >>, {}, {})
      : k1 \in Consts, k2 \in Consts }

\* x = CAT_new(5); opaque(...); v = CAT_get(x): x is an operand of the call
\* ("passed") or not ("hidden").
OpaqueProgs ==
  { Prog("opaque", "passed", 5, 0, << <<1, 2, 3, 4>> >>, << <<>> >>,
         << CATnew(5), Opaque(<<1>>), CATget(1), Ret(<<3>>) >>,
         {}, {<<2, 1>>}),
    Prog("opaque", "hidden", 5, 0, << <<1, 2, 3, 4>> >>, << <<>> >>,
         << CATnew(5), Opaque(<<>>), CATget(1), Ret(<<3>>) >>,
         {}, {<<2, 1>>}) }

\* p = alloca; a = CAT_new(8); store a, p; opaque(p); v = CAT_get(a)
EscapeProgs ==
  { Prog("escape", "", 8, 0, << <<1, 2, 3, 4, 5, 6>> >>, << <<>> >>,
         << Alloca, CATnew(8), Store(2, 1), Opaque(<<1>>), CATget(2),
            Ret(<<5>>) >>, {}, {<<4, 1>>, <<4, 2>>}) }

\* CAT_sub(d, x, x) with x a constant box ("new"), an argument ("arg"), the
\* result of an opaque call without operands ("opaque"), the destination of
\* a CAT_add of an argument ("add"), or a box made in a block the worklist
\* does not reach ("loop").
SubSelfProgs ==
  { Prog("subself", "new", k, 0, << <<1, 2, 3, 4, 5>> >>, << <<>> >>,
         << CATnew(k), CATnew(1), CATsub(2, 1, 1), CATget(2), Ret(<<4>>) >>,
         {}, {}) : k \in Consts }
  \cup
  { Prog("subself", "arg", 0, 0, << <<1, 2, 3, 4, 5>> >>, << <<>> >>,
         << Other(<<>>), CATnew(1), CATsub(2, ArgY, ArgY), CATget(2),
            Ret(<<4>>) >>, {ArgY}, {}),
    Prog("subself", "opaque", 0, 0, << <<1, 2, 3, 4, 5>> >>, << <<>> >>,
         << OpaqueBox(<<>>), CATnew(1), CATsub(2, 1, 1), CATget(2),
            Ret(<<4>>) >>, {}, {}),
    Prog("subself", "add", 0, 0, << <<1, 2, 3, 4, 5, 6>> >>, << <<>> >>,
         << CATnew(1), CATadd(1, ArgY, ArgY), CATnew(1), CATsub(3, 1, 1),
            CATget(3), Ret(<<5>>) >>, {ArgY}, {}),
    Prog("subself", "loop", 0, 0,
         << <<1>>, <<2>>, <<3>>, <<4, 5, 6, 7, 8>> >>,
         << <<2>>, <<3>>, <<2, 4>>, <<>> >>,
         << Br(<<>>), Br(<<>>), Br(<<>>), CATnew(1), CATnew(1),
            CATsub(5, 4, 4), CATget(5), Ret(<<7>>) >>, {}, {}) }

\* k = CAT_new(k1); d = CAT_new(1); CAT_op(d, y, k) ("right") or
\* CAT_op(d, k, y) ("left"), with y an argument and CAT_op one of CAT_add
\* and CAT_sub; v = CAT_get(d)
ZeroProgs ==
  { Prog("zero", side, k, 0, << <<1, 2, 3, 4, 5>> >>, << <<>> >>,
         << CATnew(k), CATnew(1),
            Call(op, IF side = "right" THEN <<2, ArgY, 1>> ELSE <<2, 1, ArgY>>,
                 FALSE, FALSE),
            CATget(2), Ret(<<4>>) >>, {ArgY}, {})
      : op \in {"CAT_add", "CAT_sub"}, side \in {"right", "left"},
        k \in Consts }

\* Functions without CAT_add, CAT_sub and CAT_get.
NoCatProgs ==
  { Prog("nocat", "plain", 0, 0, << <<1, 2, 3, 4>> >>, << <<>> >>,
         << Opaque(<<>>), Other(<<1>>), Printf(<<2>>), Ret(<<2>>) >>,
         {}, {}) }
  \cup
  { Prog("nocat", "boxes", k, 0, << <<1, 2, 3, 4, 5>> >>, << <<>> >>,
         << CATnew(k), CATset(1, CI(k)), Opaque(<<1>>), CATdestroy(1),
            Ret(<<>>) >>, {}, {<<3, 1>>}) : k \in Consts }

\* r = opaque(); v = CAT_get(r)       ("call")
\* p = alloca; r = load p; v = CAT_get(r)   ("load")
\* p = alloca; a = CAT_new(k); store a, p; r = load p; v = CAT_get(r) ("stored")
ResultProgs ==
  { Prog("result", "call", 0, 0, << <<1, 2, 3>> >>, << <<>> >>,
         << OpaqueBox(<<>>), CATget(1), Ret(<<2>>) >>, {}, {}),
    Prog("result", "load", 0, 0, << <<1, 2, 3, 4>> >>, << <<>> >>,
         << Alloca, Load(1), CATget(2), Ret(<<3>>) >>, {}, {}) }
  \cup
  { Prog("result", "stored", k, 0, << <<1, 2, 3, 4, 5, 6>> >>, << <<>> >>,
         << Alloca, CATnew(k), Store(2, 1), Load(1), CATget(4), Ret(<<5>>) >>,
         {}, {}) : k \in Consts }

\* x1 = CAT_new(k1) / x2 = CAT_new(k2) in the two arms, x = phi(x1, x2) or,
\* in one block, x = select(c, x1, x2); v = CAT_get(x)
PhiProgs ==
  { Prog("phi", "phi", k1, k2,
         << <<1>>, <<2, 3>>, <<4, 5>>, <<6, 7, 8>> >>,
         << <<2, 3>>, <<4>>, <<4>>, <<>> >>,
         << Br(<<>>), CATnew(k1), Br(<<>>), CATnew(k2), Br(<<>>),
            Phi(<<2, 4>>, <<2, 3>>), CATget(6), Ret(<<7>>) >>, {}, {})
      : k1 \in Consts, k2 \in Consts }
  \cup
  { Prog("phi", "select", k1, k2, << <<1, 2, 3, 4, 5, 6>> >>, << <<>> >>,
         << Other(<<>>), CATnew(k1), CATnew(k2), Select(1, 2, 3),
            CATget(4), Ret(<<5>>) >>, {}, {})
      : k1 \in Consts, k2 \in Consts }

\* Functions whose values alias, in one block:
\* a = CAT_new(k1); b = CAT_new(k2); s = select(c, a, b); CAT_set(s, k1);
\*   v = CAT_get(a)                                              ("select")
\* p = alloca; a = CAT_new(k); store a, p; r = load p; CAT_set(r, 1);
\*   v = CAT_get(a)                                              ("load")
\* a = CAT_new(k); r = opaque(a) returning i8*; CAT_set(r, 1);
\*   v = CAT_get(a)                                              ("result")
\* r = opaque() returning i8*; opaque(r): no CAT call names r    ("dynamic")
AliasProgs ==
  { Prog("alias", "select", k1, k2, << <<1, 2, 3, 4, 5, 6, 7>> >>, << <<>> >>,
         << Other(<<>>), CATnew(k1), CATnew(k2), Select(1, 2, 3),
            CATset(4, CI(k1)), CATget(2), Ret(<<6>>) >>, {}, {})
      : k1 \in Consts, k2 \in Consts }
  \cup
  { Prog("alias", "load", k, 0, << <<1, 2, 3, 4, 5, 6, 7>> >>, << <<>> >>,
         << Alloca, CATnew(k), Store(2, 1), Load(1), CATset(4, CI(1)),
            CATget(2), Ret(<<6>>) >>, {}, {}) : k \in Consts }
  \cup
  { Prog("alias", "result", k, 0, << <<1, 2, 3, 4, 5>> >>, << <<>> >>,
         << CATnew(k), OpaqueBox(<<1>>), CATset(2, CI(1)), CATget(1),
            Ret(<<4>>) >>, {}, {<<2, 1>>}) : k \in Consts }
  \cup
  { Prog("alias", "dynamic", 0, 0, << <<1, 2, 3>> >>, << <<>> >>,
         << OpaqueBox(<<>>), Opaque(<<1>>), Ret(<<>>) >>, {}, {<<2, 1>>}) }

\* Functions with a loop, whose blocks the worklist visits again:
\* "phi":    entry: a = CAT_new(k1); b = CAT_new(k2)
\*           H: x = phi [a, entry], [b, L]
\*           L: v = CAT_get(x); br c, H, X          X: ret v
\* "escape": entry: p = alloca; a = CAT_new(1); b = CAT_new(k); store a, p
\*           H: opaque(p); store b, p; br c, H, X   X: v = CAT_get(b); ret v
\* "store":  entry: p = alloca; a = CAT_new(k1); b = CAT_new(k2); store a, p
\*           H: r = load p; v = CAT_get(r)
\*           L: store b, p; br c, H, X              X: ret v
\* "dynamic": H: r = opaque() returning i8*; opaque(r); br c, H, X
LoopProgs ==
  { Prog("loop", "phi", k1, k2,
         << <<1, 2, 3>>, <<4, 5>>, <<6, 7>>, <<8>> >>,
         << <<2>>, <<3>>, <<2, 4>>, <<>> >>,
         << CATnew(k1), CATnew(k2), Br(<<>>), Phi(<<1, 2>>, <<1, 3>>),
            Br(<<>>), CATget(4), Br(<<>>), Ret(<<6>>) >>, {}, {})
      : k1 \in Consts, k2 \in Consts }
  \cup
  { Prog("loop", "escape", 1, k,
         << <<1, 2, 3, 4, 5>>, <<6, 7, 8>>, <<9, 10>> >>,
         << <<2>>, <<2, 3>>, <<>> >>,
         << Alloca, CATnew(1), CATnew(k), Store(2, 1), Br(<<>>),
            Opaque(<<1>>), Store(3, 1), Br(<<>>), CATget(3), Ret(<<9>>) >>,
         {}, {<<6, 1>>, <<6, 2>>, <<6, 3>>}) : k \in Consts }
  \cup
  { Prog("loop", "store", k1, k2,
         << <<1, 2, 3, 4, 5>>, <<6, 7, 8>>, <<9, 10>>, <<11>> >>,
         << <<2>>, <<3>>, <<2, 4>>, <<>> >>,
         << Alloca, CATnew(k1), CATnew(k2), Store(2, 1), Br(<<>>),
            Load(1), CATget(6), Br(<<>>), Store(3, 1), Br(<<>>),
            Ret(<<7>>) >>, {}, {})
      : k1 \in Consts, k2 \in Consts }
  \cup
  { Prog("loop", "dynamic", 0, 0,
         << <<1>>, <<2, 3, 4>>, <<5>> >>,
         << <<2>>, <<2, 3>>, <<>> >>,
         << Br(<<>>), OpaqueBox(<<>>), Opaque(<<2>>), Br(<<>>), Ret(<<>>) >>,
         {}, {<<3, 2>>}) }

\* A select whose result no CAT call names:
\* "data": a = CAT_new(k1); b = CAT_new(k2); s = select c, a, b; opaque(s);
\*         v = CAT_get(a); return v
\* "ptr":  p = alloca; q = alloca; s = select c, p, q; opaque(s)
SelectProgs ==
  { Prog("select", "data", k1, k2, << <<1, 2, 3, 4, 5, 6, 7>> >>, << <<>> >>,
         << Other(<<>>), CATnew(k1), CATnew(k2), Select(1, 2, 3),
            Opaque(<<4>>), CATget(2), Ret(<<6>>) >>, {}, {})
      : k1 \in Consts, k2 \in Consts }
  \cup
  { Prog("select", "ptr", 0, 0, << <<1, 2, 3, 4, 5, 6>> >>, << <<>> >>,
         << Other(<<>>), Alloca, Alloca, Select(1, 2, 3), Opaque(<<4>>),
            Ret(<<>>) >>, {}, {}) }

\* p = alloca; q = f(p), a pointer; store p, q; g(q).  The result q is made an
\* alias of the argument p (line 641), so the store through q makes p point
\* to itself too
CycleProgs ==
  { Prog("cycle", "result", 0, 0, << <<1, 2, 3, 4, 5>> >>, << <<>> >>,
         << Alloca, OpaquePtr(<<1>>), Store(1, 2), Opaque(<<2>>), Ret(<<>>) >>,
         {}, {<<2, 1>>}) }

\* A pointer argument y, classified CAT_PTR through what is loaded from it:
\* "chain":  q = load y; r = load q; v = CAT_get(r); return v
\* "opaque": opaque(y); r = load y; v = CAT_get(r); return v
ArgPtrProgs ==
  { Prog("argptr", "chain", 0, 0, << <<1, 2, 3, 4>> >>, << <<>> >>,
         << Load(ArgY), Load(1), CATget(2), Ret(<<3>>) >>, {ArgY}, {}),
    Prog("argptr", "opaque", 0, 0, << <<1, 2, 3, 4>> >>, << <<>> >>,
         << Opaque(<<ArgY>>), Load(ArgY), CATget(2), Ret(<<3>>) >>,
         {ArgY}, {<<1, ArgY>>}) }

Programs ==
  FoldProgs \cup NewGetProgs \cup DiamondProgs \cup OpaqueProgs
    \cup EscapeProgs \cup SubSelfProgs \cup ZeroProgs \cup NoCatProgs
    \cup ResultProgs \cup PhiProgs \cup AliasProgs \cup LoopProgs
    \cup CycleProgs \cup SelectProgs \cup ArgPtrProgs

\* ------------------------------------------------------------------- state
VARIABLES
  prog,        \* the function runOnFunction was first given, and its parameters
  oracle,      \* the alias oracle: (call, pointer) -> ModRefInfo
  blocks,      \* the instruction lists of the basic blocks (the IR, mutable)
  inst,        \* every instruction ever created, erased ones included
  erased,      \* instructions erased from their parent (freed)
  allCATData, allCATPtr,
  rdaIN, rdaOUT,   \* IN and OUT of the source (IN is a reserved word)
  aliIN, aliOUT, ptIN, ptOUT,
  queue,       \* toBeAnalyzed of RDA()
  pc,          \* position inside runOnFunction
  run,         \* number of the current runOnFunction call on this function
  rets,        \* the values returned by the finished runs
  delFold,     \* deleteList of constantFoldAndAlgSimp in the current run
  delProp,     \* deleteList of constantProp in the current run
  setFor,      \* erased CAT_add/CAT_sub -> the CAT_set inserted before it
  replaced,    \* erased CAT_get -> the constant its uses were replaced by
  preErase     \* the blocks when the last rewriter pass reached its erase loop

vars == <<prog, oracle, blocks, inst, erased, allCATData, allCATPtr,
          rdaIN, rdaOUT, aliIN, aliOUT, ptIN, ptOUT, queue, pc, run, rets,
          delFold, delProp, setFor, replaced, preErase>>

irVars == <<blocks, inst, erased, setFor, replaced>>
typeVars == <<allCATData, allCATPtr>>
mapVars == <<rdaIN, rdaOUT, aliIN, aliOUT, ptIN, ptOUT>>

\* -------------------------------------------------------------------- maps
\* std::map<K, std::set<V>>: a function on the keys present.
EmptyMap == [x \in {} |-> {}]
Get(m, k) == IF k \in DOMAIN m THEN m[k] ELSE {}
Put(m, k, s) == [x \in DOMAIN m \cup {k} |-> IF x = k THEN s ELSE m[x]]
Touch(m, k) == IF k \in DOMAIN m THEN m ELSE Put(m, k, {})
\* insert every element of s into m[k] for every k in ks
AddAll(m, ks, s) == [x \in DOMAIN m \cup ks |->
                       IF x \in ks THEN Get(m, x) \cup s ELSE m[x]]
\* per-key union of two maps, creating only keys that receive an element
\* (lines 329-339: the insert runs once per element of pair.second)
MergeInto(m, o) ==
  LET ks == {k \in DOMAIN o : o[k] # {}}
  IN  [x \in DOMAIN m \cup ks |-> Get(m, x) \cup Get(o, x)]
\* all the definitions of an RDASet (oldOut / newOut, lines 321-323, 667-669)
AllDefs(m) == UNION {m[k] : k \in DOMAIN m}

SetMin(S) == CHOOSE x \in S : \A y \in S : x <= y

\* -------------------------------------------------------------- CFG and IR
Terminator(b) == blocks[b][Len(blocks[b])]
Successors(b) == prog.succ[b]
Predecessors(b) == {p \in 1..Len(blocks) :
                      \E i \in 1..Len(prog.succ[p]) : prog.succ[p][i] = b}

RECURSIVE Flatten(_)
Flatten(bs) == IF bs = <<>> THEN <<>> ELSE Head(bs) \o Flatten(Tail(bs))
\* the snapshot "instructions" of lines 798-801 and 859-862
Instructions == Flatten(blocks)
LiveInsts == {Instructions[i] : i \in 1..Len(Instructions)}

\* --------------------------------------------------------- type classifier
checkType(v, D, P) ==
  IF v \in D THEN "CAT_DATA" ELSE IF v \in P THEN "CAT_PTR" ELSE "OTHER"

Range(s) == {s[i] : i \in 1..Len(s)}

\* one iteration of the loop of collectTypeInfoInBB on instruction id
CollectInst(id, T) ==
  LET I == inst[id]
      D == T.D
      P == T.P
      ty(v) == checkType(v, D, P)
  IN
  CASE I.op = "alloca" -> [D |-> D, P |-> P \cup {id}]
    [] I.op = "phi" ->
         CASE ty(id) = "CAT_DATA" -> [D |-> D \cup Range(I.ops), P |-> P]
           [] ty(id) = "CAT_PTR" -> [D |-> D, P |-> P \cup Range(I.ops)]
           [] OTHER ->
                [D |-> D \cup (IF \E v \in Range(I.ops) : ty(v) = "CAT_DATA"
                               THEN {id} ELSE {}),
                 P |-> P \cup (IF \E v \in Range(I.ops) : ty(v) = "CAT_PTR"
                               THEN {id} ELSE {})]
    [] I.op = "select" ->
         CASE ty(id) = "CAT_DATA" -> [D |-> D \cup {I.ops[2], I.ops[3]}, P |-> P]
           [] ty(id) = "CAT_PTR" -> [D |-> D, P |-> P \cup {I.ops[2], I.ops[3]}]
           [] OTHER ->
                \* lines 257-268 insert the operand itself, not the select
                [D |-> D \cup {v \in {I.ops[2], I.ops[3]} : ty(v) = "CAT_DATA"},
                 P |-> P \cup {v \in {I.ops[2], I.ops[3]} : ty(v) = "CAT_PTR"}]
    [] I.op = "store" ->
         IF ty(I.ops[1]) # "OTHER" THEN [D |-> D, P |-> P \cup {I.ops[2]}] ELSE T
    [] I.op = "load" ->
         IF ty(id) # "OTHER" THEN [D |-> D, P |-> P \cup {I.ops[1]}] ELSE T
    [] I.op = "call" ->
         CASE I.fn = "CAT_new" -> [D |-> D \cup {id}, P |-> P]
           [] I.fn \in {"CAT_get", "CAT_set", "CAT_destroy"} ->
                [D |-> D \cup {I.ops[1]}, P |-> P]
           [] I.fn \in {"CAT_add", "CAT_sub"} ->
                [D |-> D \cup {I.ops[1], I.ops[2], I.ops[3]}, P |-> P]
           [] OTHER -> T
    [] OTHER -> T

RECURSIVE CollectSeq(_, _)
CollectSeq(ids, T) ==
  IF ids = <<>> THEN T ELSE CollectSeq(Tail(ids), CollectInst(Head(ids), T))

\* one pass of the while loop of collectTypeInfo over every block; the sets
\* only grow, so "some block changed a size" is "the pass changed a set"
collectTypeInfoInBB(T) == CollectSeq(Instructions, T)

\* line 306 and lines 198-199: some block of the pass changed the size of
\* one of the two sets
PassChangedData(T, N) == Cardinality(N.D) # Cardinality(T.D)
PassChanged(T, N) ==
  Cardinality(N.D) # Cardinality(T.D) \/ Cardinality(N.P) # Cardinality(T.P)

EntryBlocks == SelectSeq([b \in 1..Len(blocks) |-> b],
                         LAMBDA b : Predecessors(b) = {})

CollectTypeInfoPass ==
  /\ pc = "collect"
  /\ LET T == [D |-> allCATData, P |-> allCATPtr]
         N == collectTypeInfoInBB(T)
     IN  /\ allCATData' = N.D
         /\ allCATPtr' = N.P
         /\ IF ~PassChanged(T, N)
            THEN pc' = "rda" /\ queue' = EntryBlocks
            ELSE pc' = "collect" /\ queue' = queue
  /\ UNCHANGED <<prog, oracle, irVars, preErase, mapVars, run, rets, delFold,
                 delProp>>

\* ------------------------------------------------- helpers of the transfer
GetMap(m, k) == IF k \in DOMAIN m THEN m[k] ELSE EmptyMap
TouchMap(m, k) == IF k \in DOMAIN m THEN m ELSE Put(m, k, EmptyMap)

MayMod == {"Mod", "ModRef", "MustMod"}
mayModifiedByFuncModOnly(callInst, ptr) == oracle[<<callInst, ptr>>] = "Mod"
mayModifiedByFunc(callInst, ptr) == oracle[<<callInst, ptr>>] \in MayMod

\* symmetric insertion of the aliases A for target (lines 100-104, 412-416,
\* 457-461, 513-517): the loop body runs once per element of A
MergeAliasesOneWay(aO, target, A) ==
  IF A = {} THEN aO ELSE AddAll(aO, {target}, A)
MergeAliases(aO, target, A) ==
  IF A = {} THEN aO ELSE AddAll(AddAll(aO, {target}, A), A, {target})

mergeAliasInfo(source, target, aI, aO) ==
  [aI |-> Touch(aI, source), aO |-> MergeAliases(aO, target, Get(aI, source))]

resetAliasInfo(v, aI, aO) ==
  LET A == Get(aI, v)
      erasedV == [x \in DOMAIN aO \cup A |->
                    IF x \in A THEN Get(aO, x) \ {v} ELSE aO[x]]
  IN  [aI |-> Touch(aI, v), aO |-> Put(erasedV, v, {v})]

addDef(v, def, aliases, curOUT) ==
  LET al == IF v \in DOMAIN aliases THEN aliases ELSE Put(aliases, v, {v})
  IN  [al |-> al, out |-> AddAll(curOUT, al[v], {def})]

setDef(v, def, aliases, curOUT) == addDef(v, def, aliases, Put(curOUT, v, {}))

addPointTo(ptr, val, aliases, curPtOUT) ==
  LET al == IF ptr \in DOMAIN aliases THEN aliases ELSE Put(aliases, ptr, {ptr})
  IN  [al |-> al, out |-> AddAll(curPtOUT, al[ptr], {val})]

setPointTo(ptr, val, aliases, curPtOUT) ==
  addPointTo(ptr, val, aliases, Put(curPtOUT, ptr, {}))

\* The recursion of lines 164-190.  The points-to map does not change while
\* it runs, so reaching a CAT_PTR that is already on the call stack repeats
\* for ever: div reports it.
RECURSIVE findAllPossibleCATData(_, _, _, _, _)
findAllPossibleCATData(ptr, curPtIN, D, P, stack) ==
  LET S == Get(curPtIN, ptr)
      ptrs == {q \in S : q # UNKNOWN /\ checkType(q, D, P) = "CAT_PTR"}
      data == {q \in S : q # UNKNOWN /\ checkType(q, D, P) = "CAT_DATA"}
      sub(q) == findAllPossibleCATData(q, curPtIN, D, P, stack \cup {ptr})
  IN  IF ptrs \cap (stack \cup {ptr}) # {}
      THEN [vals |-> {}, div |-> TRUE]
      ELSE [vals |-> (S \cap {UNKNOWN}) \cup data
                       \cup UNION {sub(q).vals : q \in ptrs},
            div |-> \E q \in ptrs : sub(q).div]

\* ---------------------------------------------------- transfer functions
\* s: the globals O, AO, PO (OUT, aliOUT, ptOUT), I, AI, PI (IN, aliIN,
\* ptIN), D, P (allCATData, allCATPtr), the locals cI, cO, aI, aO, pI, pO
\* (curIN, curOUT, curAliIN, curAliOUT, curPtIN, curPtOUT) and crash.
TermOf(b) == Terminator(b)

PhiTransfer(id, s) ==
  LET I == inst[id]
      n == Len(I.ops)
      R == resetAliasInfo(id, s.aI, s.aO)
      A == UNION {Get(GetMap(s.AO, TermOf(I.blks[i])), I.ops[i]) : i \in 1..n}
      ty == checkType(id, s.D, s.P)
      s1 == [s EXCEPT !.aI = R.aI, !.aO = MergeAliases(R.aO, id, A)]
  IN  CASE ty = "CAT_DATA" ->
             [s1 EXCEPT !.cO = Put(s.cO, id,
                UNION {Get(GetMap(s.O, TermOf(I.blks[i])), I.ops[i]) : i \in 1..n})]
        [] ty = "CAT_PTR" ->
             [s1 EXCEPT !.pO = Put(s.pO, id,
                UNION {Get(GetMap(s.PO, TermOf(I.blks[i])), I.ops[i]) : i \in 1..n})]
        [] OTHER -> s1

SelectTransfer(id, s) ==
  LET I == inst[id]
      op1 == I.ops[2]
      op2 == I.ops[3]
      R == resetAliasInfo(id, s.aI, s.aO)
      A == Get(R.aI, op1) \cup Get(R.aI, op2)
      ty == checkType(id, s.D, s.P)
      s1 == [s EXCEPT !.aI = Touch(Touch(R.aI, op1), op2),
                      !.aO = MergeAliases(R.aO, id, A)]
  IN  CASE ty = "CAT_DATA" ->
             [s1 EXCEPT !.cO = Put(s.cO, id, Get(s.cI, op1) \cup Get(s.cI, op2))]
        [] ty = "CAT_PTR" ->
             [s1 EXCEPT !.pO = Put(s.pO, id, Get(s.pI, op1) \cup Get(s.pI, op2))]
        [] OTHER -> s1

AllocaTransfer(id, s) ==
  IF checkType(id, s.D, s.P) = "CAT_PTR"
  THEN LET R == resetAliasInfo(id, s.aI, s.aO)
       IN  [s EXCEPT !.aI = R.aI, !.aO = R.aO, !.pO = Put(s.pO, id, {})]
  ELSE s

StoreTransfer(id, s) ==
  LET value == inst[id].ops[1]
      ptr == inst[id].ops[2]
  IN  IF checkType(ptr, s.D, s.P) = "CAT_PTR"
      THEN LET R == setPointTo(ptr, value, s.aI, s.pO)
           IN  [s EXCEPT !.aI = R.al, !.pO = R.out]
      ELSE s

RECURSIVE TouchAll(_, _)
TouchAll(m, ks) ==
  IF ks = {} THEN m
  ELSE LET k == SetMin(ks) IN TouchAll(Touch(m, k), ks \ {k})

\* line 546: curPtOUT[ptr].erase(UNKNOWN)
EraseUnknownKept(pO, ptr) == Touch(pO, ptr)
EraseUnknown(pO, ptr) == Put(pO, ptr, Get(pO, ptr) \ {UNKNOWN})

LoadTransfer(id, s) ==
  LET ptr == inst[id].ops[1]
      pts == Get(s.pI, ptr) \ {UNKNOWN}
      unk == Get(s.pI, ptr) \cap {UNKNOWN}
      R == resetAliasInfo(id, s.aI, s.aO)
      A == UNION {Get(R.aI, q) : q \in pts}
      aI1 == TouchAll(R.aI, pts)
      ty == checkType(id, s.D, s.P)
      cO1 == IF ty = "CAT_DATA"
             THEN Put(s.cO, id, unk \cup UNION {Get(s.cI, q) :
                    q \in {x \in pts : checkType(x, s.D, s.P) = "CAT_DATA"}})
             ELSE s.cO
      pO1 == IF ty = "CAT_PTR"
             THEN Put(s.pO, id, unk \cup UNION {Get(s.pI, q) :
                    q \in {x \in pts : checkType(x, s.D, s.P) = "CAT_PTR"}})
             ELSE s.pO
      pO2 == EraseUnknown(pO1, ptr)
      AP == addPointTo(ptr, id, aI1, pO2)
  IN  IF checkType(ptr, s.D, s.P) = "CAT_PTR"
      THEN [s EXCEPT !.aI = AP.al, !.aO = MergeAliases(R.aO, id, A),
                     !.cO = cO1, !.pO = AP.out]
      ELSE s

CATnewTransfer(id, s) ==
  LET R == resetAliasInfo(id, s.aI, s.aO)
      SD == setDef(id, id, R.aO, s.cO)
  IN  [s EXCEPT !.aI = R.aI, !.aO = SD.al, !.cO = SD.out]

CATwriteTransfer(id, s) ==
  LET SD == setDef(inst[id].ops[1], id, s.aO, s.cO)
  IN  [s EXCEPT !.aO = SD.al, !.cO = SD.out]

\* lines 598-602, one pointer after the other
RECURSIVE OpaquePtrLoop(_, _, _, _)
OpaquePtrLoop(id, ptrs, datas, r) ==
  IF ptrs = {} THEN r
  ELSE LET ptr == SetMin(ptrs)
           AP == addPointTo(ptr, UNKNOWN, r.aI, r.pO)
           r1 == IF mayModifiedByFunc(id, ptr) /\ datas # {}
                 THEN [aI |-> AP.al, pO |-> AddAll(r.pO, AP.al[ptr], datas)]
                 ELSE r
       IN  OpaquePtrLoop(id, ptrs \ {ptr}, datas, r1)

\* lines 604-606, one datum after the other; UNKNOWN is nullptr, and
\* getSize(nullptr) dereferences it (line 81)
RECURSIVE OpaqueDataLoop(_, _, _)
OpaqueDataLoop(id, datas, r) ==
  IF datas = {} \/ r.crash # "" THEN r
  ELSE LET data == SetMin(datas)
           SD == setDef(data, UNKNOWN, r.aI, r.cO)
           r1 == IF data = UNKNOWN THEN [r EXCEPT !.crash = "nullptr"]
                 ELSE IF mayModifiedByFunc(id, data)
                 THEN [r EXCEPT !.aI = SD.al, !.cO = SD.out]
                 ELSE r
       IN  OpaqueDataLoop(id, datas \ {data}, r1)

\* lines 625-632 and 638-642: merge the state of the sources into the result
RECURSIVE OpaqueMergeLoop(_, _, _)
OpaqueMergeLoop(id, srcs, r) ==
  IF srcs = {} THEN r
  ELSE LET src == SetMin(srcs)
           M == mergeAliasInfo(src, id, r.aI, r.aO)
           r1 == IF src = UNKNOWN
                 THEN [r EXCEPT !.out = Put(r.out, id, Get(r.out, id) \cup {UNKNOWN})]
                 ELSE [r EXCEPT !.out = Put(r.out, id, Get(r.out, id) \cup Get(r.out, src)),
                                !.aI = M.aI, !.aO = M.aO]
       IN  OpaqueMergeLoop(id, srcs \ {src}, r1)

\* dynamic type collection, lines 608-617: a pointer-typed result joins
\* allCATData (i8*) or allCATPtr (any other pointer)
DynamicTypeAssign(id, D, P) ==
  IF ~inst[id].ptr THEN [D |-> D, P |-> P]
  ELSE IF inst[id].i8 THEN [D |-> {id}, P |-> P]
  ELSE [D |-> D, P |-> {id}]
DynamicType(id, D, P) ==
  IF ~inst[id].ptr THEN [D |-> D, P |-> P]
  ELSE IF inst[id].i8 THEN [D |-> D \cup {id}, P |-> P]
  ELSE [D |-> D, P |-> P \cup {id}]

OpaqueTransfer(id, s) ==
  LET I == inst[id]
      args == Range(I.ops)
      possiblePtrPassedIn == {a \in args : checkType(a, s.D, s.P) = "CAT_PTR"}
      found(p) == findAllPossibleCATData(p, s.pI, s.D, s.P, {})
      possibleDataPassedIn ==
        {a \in args : checkType(a, s.D, s.P) = "CAT_DATA"}
          \cup UNION {found(p).vals : p \in possiblePtrPassedIn}
      diverges == \E p \in possiblePtrPassedIn : found(p).div
      L1 == OpaquePtrLoop(id, possiblePtrPassedIn, possibleDataPassedIn,
                          [aI |-> s.aI, pO |-> s.pO])
      L2 == OpaqueDataLoop(id, possibleDataPassedIn,
                           [aI |-> L1.aI, cO |-> s.cO, crash |-> ""])
      \* dynamic type collection, lines 608-617
      D1 == DynamicType(id, s.D, s.P).D
      P1 == DynamicType(id, s.D, s.P).P
      ty == checkType(id, D1, P1)
      R == resetAliasInfo(id, L2.aI, s.aO)
      MD == OpaqueMergeLoop(id, possibleDataPassedIn,
              [aI |-> R.aI, aO |-> R.aO, out |-> Put(L2.cO, id, {})])
      MP == OpaqueMergeLoop(id, possiblePtrPassedIn,
              [aI |-> R.aI, aO |-> R.aO, out |-> Put(L1.pO, id, {})])
      s2 == [s EXCEPT !.aI = L2.aI, !.pO = L1.pO, !.cO = L2.cO,
                      !.D = D1, !.P = P1]
  IN  IF diverges THEN [s EXCEPT !.crash = "recursion"]
      ELSE IF L2.crash # "" THEN [s EXCEPT !.crash = L2.crash]
      ELSE CASE ty = "CAT_DATA" ->
                  [s2 EXCEPT !.aI = MD.aI, !.aO = MD.aO, !.cO = MD.out]
             [] ty = "CAT_PTR" ->
                  [s2 EXCEPT !.aI = MP.aI, !.aO = MP.aO, !.pO = MP.out]
             [] OTHER -> s2

\* the if / else-if chain of lines 397-648
Transfer(id, s) ==
  LET I == inst[id]
  IN  CASE I.ptr /\ I.op = "phi" -> PhiTransfer(id, s)
        [] I.ptr /\ I.op = "select" -> SelectTransfer(id, s)
        [] I.op = "alloca" -> AllocaTransfer(id, s)
        [] I.op = "store" -> StoreTransfer(id, s)
        [] I.op = "load" -> LoadTransfer(id, s)
        [] IsCall(I, "CAT_new") -> CATnewTransfer(id, s)
        [] I.op = "call" /\ I.fn \in {"CAT_add", "CAT_sub", "CAT_set"} ->
             CATwriteTransfer(id, s)
        [] IsOpaque(I) -> OpaqueTransfer(id, s)
        [] OTHER -> s

\* one iteration of the loop of lines 384-660
StepInst(id, s) ==
  LET s0 == [s EXCEPT !.I = Put(s.I, id, s.cI), !.cO = s.cI,
                      !.AI = Put(s.AI, id, s.aI), !.aO = s.aI,
                      !.PI = Put(s.PI, id, s.pI), !.pO = s.pI]
      \* lines 650-659: OUT[&I] = curOUT; curIN = curOUT, and the like
      Record(s1) ==
        [s1 EXCEPT !.O = Put(s1.O, id, s1.cO), !.cI = s1.cO,
                   !.AO = Put(s1.AO, id, s1.aO), !.aI = s1.aO,
                   !.PO = Put(s1.PO, id, s1.pO), !.pI = s1.pO]
  IN  Record(Transfer(id, s0))

RECURSIVE BlockLoop(_, _)
BlockLoop(ids, s) ==
  IF ids = <<>> \/ s.crash # "" THEN s
  ELSE BlockLoop(Tail(ids), StepInst(Head(ids), s))

RECURSIVE MergePreds(_, _, _)
MergePreds(ps, m, outs) ==
  IF ps = {} THEN m
  ELSE LET p == SetMin(ps)
       IN  MergePreds(ps \ {p}, MergeInto(m, GetMap(outs, TermOf(p))), outs)

RECURSIVE TouchPreds(_, _)
TouchPreds(ps, outs) ==
  IF ps = {} THEN outs
  ELSE LET p == SetMin(ps)
       IN  TouchPreds(ps \ {p}, TouchMap(outs, TermOf(p)))

\* the seeds of lines 350-380 (the family has no global variable)
SeedRDA == [v \in {a \in prog.args : checkType(a, allCATData, allCATPtr) = "CAT_DATA"}
              |-> {UNKNOWN}]
SeedPt == [v \in {a \in prog.args : checkType(a, allCATData, allCATPtr) = "CAT_PTR"}
              |-> {UNKNOWN}]
SeedAlias == [v \in allCATData \cup allCATPtr |-> {v}]

\* RDAinBB: the final maps and type sets, whether the successors are to be
\* enqueued (changed), and whether the transfer died (crash)
RDAinBB(b) ==
  LET term == Terminator(b)
      firstTime == term \notin DOMAIN rdaOUT
      oldOut == AllDefs(GetMap(rdaOUT, term))
      preds == Predecessors(b)
      O0 == TouchPreds(preds, TouchMap(rdaOUT, term))
      AO0 == TouchPreds(preds, aliOUT)
      PO0 == TouchPreds(preds, ptOUT)
      s0 == [O |-> O0, AO |-> AO0, PO |-> PO0,
             I |-> rdaIN, AI |-> aliIN, PI |-> ptIN,
             D |-> allCATData, P |-> allCATPtr,
             cI |-> IF preds # {} THEN MergePreds(preds, EmptyMap, O0) ELSE SeedRDA,
             aI |-> IF preds # {} THEN MergePreds(preds, EmptyMap, AO0) ELSE SeedAlias,
             pI |-> IF preds # {} THEN MergePreds(preds, EmptyMap, PO0) ELSE SeedPt,
             cO |-> EmptyMap, aO |-> EmptyMap, pO |-> EmptyMap,
             crash |-> ""]
      \* lines 662-680: compare the old and the new OUT of the terminator
      Changed(s1) ==
        [s |-> s1,
         changed |-> firstTime \/ oldOut # AllDefs(GetMap(s1.O, term))]
  IN  Changed(BlockLoop(blocks[b], s0))

RECURSIVE AppendAll(_, _)
AppendAll(q, xs) == IF xs = <<>> THEN q ELSE AppendAll(Append(q, Head(xs)), Tail(xs))

\* one iteration of the while loop of RDA() (lines 911-921)
RDAStep ==
  /\ pc = "rda"
  /\ queue # <<>>
  /\ LET BB == Head(queue)
         Commit(R) ==
           /\ rdaIN' = R.s.I /\ rdaOUT' = R.s.O
           /\ aliIN' = R.s.AI /\ aliOUT' = R.s.AO
           /\ ptIN' = R.s.PI /\ ptOUT' = R.s.PO
           /\ allCATData' = R.s.D /\ allCATPtr' = R.s.P
           /\ IF R.s.crash # ""
              THEN pc' = "crashed" /\ queue' = Tail(queue)
              ELSE /\ pc' = pc
                   /\ queue' = IF R.changed
                               THEN AppendAll(Tail(queue), Successors(BB))
                               ELSE Tail(queue)
     IN  Commit(RDAinBB(BB))
  /\ UNCHANGED <<prog, oracle, irVars, preErase, run, rets, delFold, delProp>>

\* ---------------------------------------------------------------- rewriter
Null == 0 - 1       \* the nullptr returned by getIfIsConstant
Crash == 0 - 2      \* a read of freed memory that kills the process

\* What a read through a dangling Instruction* can give getIfIsConstant: the
\* freed bytes still look like a call that is no CAT_new/CAT_set (Null),
\* they look like a CAT_new/CAT_set of some integer constant, or the read
\* faults.
FreedReads == {Null, Crash} \cup {CI(k) : k \in Consts}

\* the candidate of one definition (lines 770-781); freed maps the erased
\* instructions that may be read to what the read gives
Candidate(def, ins, freed) ==
  IF def \in DOMAIN freed THEN freed[def]
  ELSE IF IsCall(ins[def], "CAT_new") THEN ins[def].ops[1]
  ELSE IF IsCall(ins[def], "CAT_set") THEN ins[def].ops[2]
  ELSE Null

getIfIsConstant(operand, curIN, ins, freed) ==
  LET defs == Get(curIN, operand)
      cands == {Candidate(d, ins, freed) : d \in defs \ {UNKNOWN}}
  IN  IF defs = {} \/ UNKNOWN \in defs THEN Null
      ELSE IF Crash \in cands THEN Crash
      ELSE IF \E c \in cands : c = Null \/ ~IsConstantInt(c) THEN Null
      ELSE IF Cardinality(cands) = 1 THEN CHOOSE c \in cands : TRUE
      ELSE Null

NoFreed == [x \in {} |-> Null]

\* IRBuilder<> builder(callInst): the new instructions go right before id
InsertBefore(bs, id, new) ==
  [b \in 1..Len(bs) |->
     IF \E i \in 1..Len(bs[b]) : bs[b][i] = id
     THEN LET i == CHOOSE j \in 1..Len(bs[b]) : bs[b][j] = id
          IN  SubSeq(bs[b], 1, i - 1) \o new \o SubSeq(bs[b], i, Len(bs[b]))
     ELSE bs[b]]

\* eraseFromParent of every instruction of a deleteList
EraseAll(bs, del) ==
  [b \in 1..Len(bs) |-> SelectSeq(bs[b], LAMBDA i : i \notin del)]

\* x - x = 0, line 822
IsSubSelfOffByOne(I) == IsCall(I, "CAT_sub") /\ I.ops[1] = I.ops[2]
IsSubSelf(I) == IsCall(I, "CAT_sub") /\ I.ops[2] = I.ops[3]

\* the rewrite lines 821-845 choose for a CAT_add / CAT_sub call I whose
\* operands have the constants constant1 and constant2 (Null: none)
FoldDecisionNoAddTest(I, constant1, constant2) ==
  IF IsSubSelf(I) THEN "zero"
  ELSE IF constant1 = Null /\ constant2 = Null THEN "none"
  ELSE IF constant1 # Null /\ constant2 # Null THEN "fold"
  ELSE IF constant1 = Null /\ ConstVal(constant2) = 0 THEN "get1"
  ELSE IF constant2 = Null /\ ConstVal(constant1) = 0 THEN "get2"
  ELSE "none"
FoldDecision(I, constant1, constant2) ==
  IF IsSubSelf(I) THEN "zero"
  ELSE IF constant1 = Null /\ constant2 = Null THEN "none"
  ELSE IF constant1 # Null /\ constant2 # Null THEN "fold"
  ELSE IF constant1 = Null /\ ConstVal(constant2) = 0 THEN "get1"
  ELSE IF constant2 = Null /\ ConstVal(constant1) = 0 /\ I.fn = "CAT_add"
    THEN "get2"
  ELSE "none"

\* one iteration of the loop of lines 803-849 on instruction id;
\* st = [inst, blocks, del, setFor]
FoldInst(id, st) ==
  LET I == st.inst[id]
      dst == I.ops[1]
      op1 == I.ops[2]
      op2 == I.ops[3]
      curIN == GetMap(rdaIN, id)
      constant1 == getIfIsConstant(op1, curIN, st.inst, NoFreed)
      constant2 == getIfIsConstant(op2, curIN, st.inst, NoFreed)
      n == Len(st.inst)
      \* CAT_set(dst, newOperand) before the call, and the call on the list
      withSet(newOperand) ==
        [inst |-> Append(st.inst, CATset(dst, newOperand)),
         blocks |-> InsertBefore(st.blocks, id, <<n + 1>>),
         del |-> st.del \cup {id},
         setFor |-> Put(st.setFor, id, n + 1)]
      \* CAT_set(dst, CAT_get(x)) before the call, and the call on the list
      withGet(x) ==
        [inst |-> st.inst \o <<CATget(x), CATset(dst, n + 1)>>,
         blocks |-> InsertBefore(st.blocks, id, <<n + 1, n + 2>>),
         del |-> st.del \cup {id},
         setFor |-> Put(st.setFor, id, n + 2)]
      decision == FoldDecision(I, constant1, constant2)
  IN  IF ~(IsCall(I, "CAT_add") \/ IsCall(I, "CAT_sub")) THEN st
      ELSE CASE decision = "zero" -> withSet(CI(0))
             [] decision = "fold" ->
                  withSet(IF I.fn = "CAT_add"
                          THEN CI(ConstVal(constant1) + ConstVal(constant2))
                          ELSE CI(ConstVal(constant1) - ConstVal(constant2)))
             [] decision = "get1" -> withGet(op1)
             [] decision = "get2" -> withGet(op2)
             [] OTHER -> st

RECURSIVE FoldLoop(_, _)
FoldLoop(ids, st) ==
  IF ids = <<>> THEN st ELSE FoldLoop(Tail(ids), FoldInst(Head(ids), st))

constantFoldAndAlgSimp ==
  FoldLoop(Instructions,
           [inst |-> inst, blocks |-> blocks, del |-> {}, setFor |-> setFor])

ConstantFoldAndAlgSimp ==
  /\ pc = "rda"
  /\ queue = <<>>
  /\ LET R == constantFoldAndAlgSimp
     IN  /\ inst' = R.inst
         /\ preErase' = R.blocks
         /\ blocks' = EraseAll(R.blocks, R.del)
         /\ erased' = erased \cup R.del
         /\ delFold' = R.del
         /\ setFor' = R.setFor
  /\ pc' = "prop"
  /\ UNCHANGED <<prog, oracle, typeVars, mapVars, queue, run, rets, delProp,
                 replaced>>

\* callInst->replaceAllUsesWith(constant)
ReplaceAllUsesWith(ins, id, c) ==
  [j \in 1..Len(ins) |->
     [ins[j] EXCEPT !.ops = [i \in 1..Len(ins[j].ops) |->
                               IF ins[j].ops[i] = id THEN c ELSE ins[j].ops[i]]]]

\* the calls constantProp looks at (lines 866-872)
IsPropTargetGetOrSet(I) == I.op = "call" /\ I.fn \in {"CAT_get", "CAT_set"}
IsPropTarget(I) == IsCall(I, "CAT_get")

\* one iteration of the loop of lines 864-894; st = [inst, del, replaced, crash]
PropInst(id, st, freed) ==
  LET I == st.inst[id]
      constant == getIfIsConstant(I.ops[1], GetMap(rdaIN, id), st.inst, freed)
  IN  IF ~IsPropTarget(I) \/ st.crash THEN st
      ELSE IF constant = Crash THEN [st EXCEPT !.crash = TRUE]
      ELSE IF constant # Null
        THEN [inst |-> ReplaceAllUsesWith(st.inst, id, constant),
              del |-> st.del \cup {id},
              replaced |-> Put(st.replaced, id, constant),
              crash |-> FALSE]
      ELSE st

RECURSIVE PropLoop(_, _, _)
PropLoop(ids, st, freed) ==
  IF ids = <<>> THEN st ELSE PropLoop(Tail(ids), PropInst(Head(ids), st, freed), freed)

constantProp(freed) ==
  PropLoop(Instructions,
           [inst |-> inst, del |-> {}, replaced |-> replaced, crash |-> FALSE],
           freed)

\* the erased instructions a CAT_get of the function still has among the
\* definitions of its operand: constantProp reads them after line 851 freed
\* them
DanglingDefs ==
  {d \in erased : \E g \in LiveInsts :
     /\ IsCall(inst[g], "CAT_get")
     /\ d \in Get(GetMap(rdaIN, g), inst[g].ops[1])}

ConstantProp ==
  /\ pc = "prop"
  /\ \E freed \in [DanglingDefs -> FreedReads] :
       LET R == constantProp(freed)
       IN  /\ inst' = R.inst
           /\ preErase' = blocks
           /\ blocks' = EraseAll(blocks, R.del)
           /\ erased' = erased \cup R.del
           /\ delProp' = R.del
           /\ replaced' = R.replaced
           /\ IF R.crash
              THEN pc' = "crashed" /\ rets' = rets
              ELSE pc' = "done" /\ rets' = Append(rets, delFold # {} \/ R.del # {})
  /\ UNCHANGED <<prog, oracle, typeVars, mapVars, queue, run, delFold, setFor>>

\* runOnFunction is called again on the function as the previous run left
\* it: resetGlobalMaps (lines 63-77), then the classifier
RunAgain ==
  /\ pc = "done"
  /\ run < MaxRuns
  /\ run' = run + 1
  /\ pc' = "collect"
  /\ allCATData' = {} /\ allCATPtr' = {}
  /\ rdaIN' = EmptyMap /\ rdaOUT' = EmptyMap
  /\ aliIN' = EmptyMap /\ aliOUT' = EmptyMap
  /\ ptIN' = EmptyMap /\ ptOUT' = EmptyMap
  /\ delFold' = {} /\ delProp' = {}
  /\ UNCHANGED <<prog, oracle, irVars, preErase, queue, rets>>

\* ---------------------------------------------------------- initial states
OracleChoices(p) == [p.oq -> ModRefInfo]

Init ==
  /\ prog \in Programs
  /\ oracle \in OracleChoices(prog)
  /\ blocks = prog.blocks
  /\ inst = prog.inst
  /\ erased = {}
  /\ allCATData = {}
  /\ allCATPtr = {}
  /\ rdaIN = EmptyMap /\ rdaOUT = EmptyMap
  /\ aliIN = EmptyMap /\ aliOUT = EmptyMap
  /\ ptIN = EmptyMap /\ ptOUT = EmptyMap
  /\ queue = <<>>
  /\ pc = "collect"
  /\ run = 1
  /\ rets = <<>>
  /\ delFold = {}
  /\ delProp = {}
  /\ setFor = EmptyMap
  /\ replaced = EmptyMap
  /\ preErase = prog.blocks

Next ==
  \/ CollectTypeInfoPass
  \/ RDAStep
  \/ ConstantFoldAndAlgSimp
  \/ ConstantProp
  \/ RunAgain

Spec == Init /\ [][Next]_vars

\* ------------------------------------------------------------------ claims
FirstRunDone == pc = "done" /\ run = 1
WorklistDone == pc = "rda" /\ queue = <<>>
OrigIds == 1..Len(prog.inst)
ImmediatelyBefore(bs, a, b) ==
  \E k \in 1..Len(bs) : \E i \in 1..(Len(bs[k]) - 1) :
    bs[k][i] = a /\ bs[k][i + 1] = b
PreEraseInsts == Range(Flatten(preErase))
TheGet == CHOOSE g \in OrigIds : IsCall(prog.inst[g], "CAT_get")

\* C1: when the first run on a = CAT_new(k1); b = CAT_new(k2); CAT_add(r, a, b);
\* v = CAT_get(r); return v has finished, the CAT_add is erased with
\* CAT_set(r, k1 + k2) in its place, the CAT_get is erased with its uses
\* replaced by k1 + k2, and the function returns that constant.
C1_FoldThenPropagate ==
  (prog.shape = "fold" /\ prog.variant = "CAT_add" /\ FirstRunDone) =>
    LET k == CI(prog.k1 + prog.k2)
    IN  /\ 4 \in erased
        /\ 4 \in DOMAIN setFor
        /\ inst[setFor[4]] = CATset(3, k)
        /\ 5 \in erased
        /\ 5 \in DOMAIN replaced
        /\ replaced[5] = k
        /\ inst[6].ops = <<k>>

\* C2: when the first run has finished, every CAT_get(x) that directly
\* follows x = CAT_new(k) in a block (all blocks of the family are reachable
\* from the entry block) is erased with its uses replaced by k.
C2_NewThenGetReplaced ==
  FirstRunDone =>
    \A b \in 1..Len(prog.blocks) : \A i \in 1..(Len(prog.blocks[b]) - 1) :
      LET x == prog.blocks[b][i]
          g == prog.blocks[b][i + 1]
      IN  (IsCall(prog.inst[x], "CAT_new") /\ IsConstantInt(prog.inst[x].ops[1])
             /\ prog.inst[g] = CATget(x))
            => (g \in erased /\ g \in DOMAIN replaced
                  /\ replaced[g] = prog.inst[x].ops[1])

\* C3: when the first run has finished on a function whose merge block has
\* two predecessors that last write x by CAT_set(x, k1) and CAT_set(x, k2),
\* the CAT_get(x) of the merge block is replaced exactly when k1 = k2, and
\* then by that value.
C3_MergeReplacedIffEqual ==
  (prog.shape = "diamond" /\ FirstRunDone) =>
    /\ (TheGet \in DOMAIN replaced) <=> (prog.k1 = prog.k2)
    /\ (prog.k1 = prog.k2) => (TheGet \in DOMAIN replaced
                                 /\ replaced[TheGet] = CI(prog.k1))

\* C4: for x = CAT_new(5); opaque(...); v = CAT_get(x), whatever the operands
\* of the call, if the oracle answers Mod, ModRef or MustMod for (call, x)
\* then the CAT_get is never replaced.
C4_ModKeepsGet ==
  (prog.shape = "opaque" /\ oracle[<<2, 1>>] \in {"Mod", "ModRef", "MustMod"})
    => 3 \notin DOMAIN replaced

\* C5 as claimed: for p = alloca; a = CAT_new(8); store a, p; opaque(p);
\* v = CAT_get(a), if the oracle answers Mod, ModRef or MustMod for
\* (call, p) then the CAT_get is never replaced.
C5_ModOnPointerKeepsGet ==
  (prog.shape = "escape" /\ oracle[<<4, 1>>] \in {"Mod", "ModRef", "MustMod"})
    => 5 \notin DOMAIN replaced

\* C5 as amended: in the same function, if the oracle answers Mod, ModRef or
\* MustMod for (call, a), the box itself, then the CAT_get is never replaced.
C5_ModOnBoxKeepsGet ==
  (prog.shape = "escape" /\ oracle[<<4, 2>>] \in {"Mod", "ModRef", "MustMod"})
    => 5 \notin DOMAIN replaced

C5_Witness ==
  /\ prog.shape = "escape" /\ pc = "done"
  /\ oracle[<<4, 2>>] = "ModRef"
  /\ Get(GetMap(rdaIN, 5), 2) = {UNKNOWN}
  /\ 5 \in LiveInsts

\* C6: when pass 1 reaches its erase loop, every CAT_sub(d, x, x) of the
\* function has CAT_set(d, 0) inserted right before it and is on the delete
\* list, which is then erased, whatever x's reaching definitions are.
C6_SubSelfRewritten ==
  pc = "prop" =>
    \A id \in PreEraseInsts :
      (inst[id].op = "call" /\ inst[id].fn = "CAT_sub"
         /\ inst[id].ops[2] = inst[id].ops[3])
        => /\ id \in delFold /\ id \in erased /\ id \notin LiveInsts
           /\ id \in DOMAIN setFor
           /\ inst[setFor[id]] = CATset(inst[id].ops[1], CI(0))
           /\ ImmediatelyBefore(preErase, setFor[id], id)

C6_Witness ==
  /\ prog.shape = "subself" /\ prog.variant = "arg" /\ pc = "prop"
  /\ Get(GetMap(rdaIN, 3), ArgY) = {UNKNOWN}
  /\ 3 \in erased
  /\ inst[setFor[3]] = CATset(2, CI(0))

\* C7: when pass 1 has run, a CAT_add / CAT_sub (d, a, b) with different
\* operands, one of constant value 0 and the other not constant, is
\* rewritten to CAT_set(d, CAT_get(other)) when the zero is b, or when the
\* zero is a and the call is CAT_add; a CAT_sub whose zero is a is kept.
RewrittenToGet(id, y) ==
  /\ id \in erased /\ id \notin LiveInsts /\ id \in DOMAIN setFor
  /\ LET set == setFor[id]
         get == inst[set].ops[2]
     IN  /\ IsCall(inst[set], "CAT_set")
         /\ inst[set].ops[1] = inst[id].ops[1]
         /\ get \in 1..Len(inst)
         /\ inst[get] = CATget(y)
         /\ ImmediatelyBefore(preErase, get, set)
         /\ ImmediatelyBefore(preErase, set, id)

C7_ZeroSimplification ==
  pc = "prop" =>
    \A id \in PreEraseInsts :
      LET I == inst[id]
          c1 == getIfIsConstant(I.ops[2], GetMap(rdaIN, id), inst, NoFreed)
          c2 == getIfIsConstant(I.ops[3], GetMap(rdaIN, id), inst, NoFreed)
      IN  (I.op = "call" /\ I.fn \in {"CAT_add", "CAT_sub"}
             /\ I.ops[2] # I.ops[3])
            => /\ (c1 = Null /\ c2 = CI(0)) => RewrittenToGet(id, I.ops[2])
               /\ (c1 = CI(0) /\ c2 = Null /\ I.fn = "CAT_add")
                    => RewrittenToGet(id, I.ops[3])
               /\ (c1 = CI(0) /\ c2 = Null /\ I.fn = "CAT_sub")
                    => (id \in LiveInsts /\ id \notin erased
                          /\ id \notin DOMAIN setFor)

C7_Witness ==
  /\ prog.shape = "zero" /\ prog.variant = "left" /\ prog.k1 = 0
  /\ prog.inst[3].fn = "CAT_add" /\ pc = "prop"
  /\ getIfIsConstant(1, GetMap(rdaIN, 3), inst, NoFreed) = CI(0)
  /\ getIfIsConstant(ArgY, GetMap(rdaIN, 3), inst, NoFreed) = Null
  /\ RewrittenToGet(3, ArgY)

\* C8: a second run of runOnFunction on the output of the first returns
\* false.
C8_SecondRunDeletesNothing == Len(rets) >= 2 => rets[2] = FALSE

\* C9: every erased instruction is a CAT_add / CAT_sub with a CAT_set on the
\* same destination inserted right before it, or a CAT_get no instruction
\* uses any more and whose uses became a constant; all other instructions
\* stay where they were, with their operands; a function without CAT_add,
\* CAT_sub and CAT_get is unchanged and every run on it returns false.
C9_Frame ==
  /\ erased \subseteq (DOMAIN setFor \cup DOMAIN replaced)
  /\ \A id \in DOMAIN setFor :
       /\ inst[id].op = "call" /\ inst[id].fn \in {"CAT_add", "CAT_sub"}
       /\ IsCall(inst[setFor[id]], "CAT_set")
       /\ inst[setFor[id]].ops[1] = inst[id].ops[1]
       /\ setFor[id] \notin erased
  /\ pc = "prop" => \A id \in delFold : ImmediatelyBefore(preErase, setFor[id], id)
  /\ \A id \in DOMAIN replaced :
       /\ IsCall(inst[id], "CAT_get")
       /\ IsConstantInt(replaced[id])
       /\ \A j \in LiveInsts : id \notin Range(inst[j].ops)
  /\ \A b \in 1..Len(blocks) :
       SelectSeq(blocks[b], LAMBDA i : i \in OrigIds)
         = SelectSeq(prog.blocks[b], LAMBDA i : i \notin erased)
  /\ \A id \in OrigIds \ erased :
       /\ inst[id].op = prog.inst[id].op /\ inst[id].fn = prog.inst[id].fn
       /\ Len(inst[id].ops) = Len(prog.inst[id].ops)
       /\ \A i \in 1..Len(inst[id].ops) :
            \/ inst[id].ops[i] = prog.inst[id].ops[i]
            \/ /\ prog.inst[id].ops[i] \in DOMAIN replaced
               /\ inst[id].ops[i] = replaced[prog.inst[id].ops[i]]
  /\ (\A id \in OrigIds : ~(prog.inst[id].op = "call" /\ prog.inst[id].fn
                               \in {"CAT_add", "CAT_sub", "CAT_get"}))
       => /\ blocks = prog.blocks /\ inst = prog.inst
          /\ \A r \in 1..Len(rets) : rets[r] = FALSE

C9_Witness ==
  /\ pc = "done" /\ erased # {}
  /\ \E j \in LiveInsts : IsOpaque(inst[j])
  /\ \A j \in OrigIds : IsOpaque(prog.inst[j]) => j \in LiveInsts

\* C10: when the worklist is empty, every CAT_DATA argument, and every
\* CAT_DATA value defined earlier in the block of an analyzed instruction,
\* has a non-empty reaching-definition set at that instruction.
C10_RDANonEmpty ==
  WorklistDone =>
    /\ \A a \in prog.args \cap allCATData : \A i \in DOMAIN rdaIN :
         Get(rdaIN[i], a) # {}
    /\ \A b \in 1..Len(blocks) : \A j \in 1..Len(blocks[b]) : \A i \in 1..(j - 1) :
         (blocks[b][j] \in DOMAIN rdaIN /\ blocks[b][i] \in allCATData)
           => Get(rdaIN[blocks[b][j]], blocks[b][i]) # {}

\* the instructions some block transfer has stored states for
Analyzed == DOMAIN aliIN
Symmetric(m) == \A x \in DOMAIN m : \A y \in m[x] : x \in Get(m, y)
\* the values the transfer of instruction i reads or writes by name
Touches(i, v) == v = i \/ v \in Range(inst[i].ops)
IsCATWrite(I) == I.op = "call" /\ I.fn \in {"CAT_set", "CAT_add", "CAT_sub"}

\* C11: every alias map stored for an analyzed instruction, IN and OUT, is
\* symmetric: y in Alias[x] implies x in Alias[y].
C11_AliasSymmetry ==
  \A i \in Analyzed :
    Symmetric(aliIN[i]) /\ Symmetric(GetMap(aliOUT, i))

C11_Witness ==
  /\ prog.shape = "loop" /\ prog.variant = "phi" /\ WorklistDone
  /\ 2 \in Get(GetMap(aliOUT, 4), 4) /\ 4 \in Get(GetMap(aliOUT, 4), 2)
  /\ 1 \in Get(GetMap(aliIN, 6), 4) /\ 4 \in Get(GetMap(aliIN, 6), 1)

\* C12: in the alias maps stored for an analyzed instruction, IN and OUT,
\* every value that is in allCATData or allCATPtr (put there by the prepass
\* or by the dynamic typing of an opaque call's result) is its own alias.
C12_AliasReflexive ==
  \A i \in Analyzed : \A x \in allCATData \cup allCATPtr :
    x \in Get(aliIN[i], x) /\ x \in Get(GetMap(aliOUT, i), x)

\* C13: in the OUT state stored for an analyzed instruction whose transfer
\* touches a or b, a in Alias[b] implies that a and b have the same
\* reaching-definition set and the same points-to set.
C13_AliasesShareState ==
  \A i \in Analyzed :
    LET A == GetMap(aliOUT, i)
    IN  \A b \in DOMAIN A : \A a \in A[b] :
          (Touches(i, a) \/ Touches(i, b))
            => /\ Get(GetMap(rdaOUT, i), a) = Get(GetMap(rdaOUT, i), b)
               /\ Get(GetMap(ptOUT, i), a) = Get(GetMap(ptOUT, i), b)

\* C14: when the worklist analyzes a block again, every key of the RDA map
\* stored at OUT[terminator] keeps all the definitions it had: the newly
\* stored set is a superset of the previous one.
C14_MonotoneGrowth ==
  [][(pc = "rda" /\ queue # <<>>) =>
       LET t == Terminator(Head(queue))
           old == GetMap(rdaOUT, t)
       IN  \A k \in DOMAIN old : old[k] \subseteq Get(GetMap(rdaOUT', t), k)]_vars

\* C16: when constantProp starts, no instruction of this run has been erased
\* yet, and no reaching-definition set it will read holds an erased
\* instruction.
C16_TwoPhase ==
  pc = "prop" => (delFold \cap erased = {} /\ DanglingDefs = {})

\* C17: within one runOnFunction, a value that checkType classifies CAT_DATA
\* or CAT_PTR is never classified OTHER by a later step of the prepass or of
\* the worklist.
C17_ClassificationMonotonic ==
  [][run' = run =>
       \A v \in allCATData \cup allCATPtr :
         checkType(v, allCATData', allCATPtr') # "OTHER"]_vars

C17_Witness ==
  /\ prog.shape = "subself" /\ prog.variant = "opaque" /\ run = 2
  /\ WorklistDone
  /\ allCATData = {1, 2}
  /\ \A i \in LiveInsts : 1 \notin Range(inst[i].ops)

\* C18: in the OUT state stored for an analyzed CAT_set / CAT_add / CAT_sub
\* on x, every alias a of x has exactly that call as its reaching definition.
C18_StrongUpdateOverClass ==
  \A i \in Analyzed :
    IsCATWrite(inst[i]) =>
      \A a \in Get(GetMap(aliOUT, i), inst[i].ops[1]) :
        Get(GetMap(rdaOUT, i), a) = {i}

\* the keys on which two maps of sets differ
DiffKeys(m, n) == {k \in DOMAIN m \cup DOMAIN n : Get(m, k) # Get(n, k)}

\* C19: a block transfer enqueues every successor of its block when the
\* block had never been analyzed before, and when the RDA map stored at
\* OUT[terminator] differs on some key from the one stored before.
C19_EnqueueRule ==
  [][(pc = "rda" /\ queue # <<>> /\ pc' = "rda") =>
       LET B == Head(queue)
           t == Terminator(B)
       IN  (t \notin Analyzed
              \/ DiffKeys(GetMap(rdaOUT, t), GetMap(rdaOUT', t)) # {})
             => queue' = AppendAll(Tail(queue), Successors(B))]_vars

\* the per-key union of the maps stored at the terminators of the blocks ps
UnionOfOuts(outs, ps) ==
  [k \in UNION {DOMAIN GetMap(outs, TermOf(p)) : p \in ps} |->
     UNION {Get(GetMap(outs, TermOf(p)), k) : p \in ps}]

\* C20: when the worklist is empty, the IN state stored for the first
\* instruction of every analyzed block with a predecessor is, per key, the
\* union of the OUT states stored at its predecessors' terminators, for the
\* reaching definitions, the aliases and the points-to sets.
C20_FixedPoint ==
  WorklistDone =>
    \A b \in 1..Len(blocks) :
      (Predecessors(b) # {} /\ blocks[b][1] \in Analyzed) =>
        LET f == blocks[b][1]
            ps == Predecessors(b)
        IN  /\ DiffKeys(GetMap(rdaIN, f), UnionOfOuts(rdaOUT, ps)) = {}
            /\ DiffKeys(GetMap(aliIN, f), UnionOfOuts(aliOUT, ps)) = {}
            /\ DiffKeys(GetMap(ptIN, f), UnionOfOuts(ptOUT, ps)) = {}

\* C15: the worklist loop of RDA() terminates with the queue empty. Every
\* run of the loop is finite here (the maps can only take finitely many
\* values), so the queue runs empty exactly when every iteration returns:
\* an iteration started with a block on the queue hands control back to the
\* loop, it never dies or hangs inside a transfer function.
C15_WorklistTerminates ==
  [][(pc = "rda" /\ queue # <<>>) => pc' = "rda"]_vars

\* collectTypeInfo has returned and the worklist has not started yet
ClassifierDone == pc = "rda" /\ Analyzed = {}
ValueOps(id) == {inst[id].ops[2], inst[id].ops[3]}
Tag(v) == checkType(v, allCATData, allCATPtr)

\* C21: when the classifier has finished, a select with a value operand
\* tagged CAT_DATA or CAT_PTR has a tagged result, as a phi has, and the
\* value operands of a select tagged T are both in the set of T.
C21_SelectRule ==
  ClassifierDone =>
    \A id \in LiveInsts : inst[id].op = "select" =>
      /\ (\E v \in ValueOps(id) : Tag(v) # "OTHER") => Tag(id) # "OTHER"
      /\ Tag(id) = "CAT_DATA" => ValueOps(id) \subseteq allCATData
      /\ Tag(id) = "CAT_PTR" => ValueOps(id) \subseteq allCATPtr

\* C22: while the prepass runs both sets only grow, a pass after which the
\* prepass goes on has added a value (so that the passes are at most as
\* many as the values of the function), and when the prepass has stopped
\* one more pass over every block adds nothing.
C22_ClassifierFixedPoint ==
  /\ [](ClassifierDone =>
          collectTypeInfoInBB([D |-> allCATData, P |-> allCATPtr])
            = [D |-> allCATData, P |-> allCATPtr])
  /\ [][pc = "collect" =>
          /\ allCATData \subseteq allCATData' /\ allCATPtr \subseteq allCATPtr'
          /\ pc' = "collect" =>
                Cardinality(allCATData') + Cardinality(allCATPtr')
                  > Cardinality(allCATData) + Cardinality(allCATPtr)]_vars

\* the prepass has stopped on the function that stores a CAT_new through an
\* alloca and loads it back: the store tags the alloca, the CAT_set the load
C22_Witness ==
  /\ ClassifierDone /\ prog.shape = "alias" /\ prog.variant = "load"
  /\ allCATData = {2, 4} /\ allCATPtr = {1}

RECURSIVE ReachFrom(_, _)
ReachFrom(S, n) ==
  IF n = 0 THEN S
  ELSE ReachFrom(S \cup UNION {Range(Successors(b)) : b \in S}, n - 1)
ReachableBlocks == ReachFrom(Range(EntryBlocks), Len(blocks))

\* C24: when the worklist is empty, every instruction of every block the
\* CFG reaches from a block without predecessor has its IN and OUT states
\* recorded.
C24_WorklistCoverage ==
  WorklistDone =>
    \A b \in ReachableBlocks : \A i \in Range(blocks[b]) :
      i \in DOMAIN rdaIN /\ i \in DOMAIN aliIN /\ i \in DOMAIN ptIN

\* the operands of call i that are CAT_PTR, and what the walk of lines
\* 580-596 resolves them to in the points-to state stored at the call's IN
PtrOperands(i) == {a \in Range(inst[i].ops) : Tag(a) = "CAT_PTR"}
Resolve(i, p) ==
  findAllPossibleCATData(p, GetMap(ptIN, i), allCATData, allCATPtr, {})

\* C25: for every analyzed opaque call and every CAT_PTR operand of it, the
\* transitive resolution of the operand in the points-to state at the call
\* comes to an end.
C25_ResolutionTerminates ==
  \A i \in Analyzed : IsOpaque(inst[i]) =>
    \A p \in PtrOperands(i) : ~Resolve(i, p).div

\* C26: the values the may-modify loops of an analyzed opaque call hand to
\* the alias oracle (lines 598-606) are IR values, never UNKNOWN.
C26_OracleNeverAskedUnknown ==
  \A i \in Analyzed :
    (IsOpaque(inst[i]) /\ \A p \in PtrOperands(i) : ~Resolve(i, p).div) =>
      UNKNOWN \notin PtrOperands(i)
                      \cup {a \in Range(inst[i].ops) : Tag(a) = "CAT_DATA"}
                      \cup UNION {Resolve(i, p).vals : p \in PtrOperands(i)}

\* The boxes a run of the function writes.  A function of CAT calls, phis
\* and selects only is run along its CFG paths: env gives the box each value
\* denotes (a box is named by the CAT_new that made it, the box of an
\* argument by the argument), lw the most recent write to each box (UNKNOWN
\* for a box that comes from outside), obs the pairs (CAT_get, most recent
\* write to the box of its operand) seen so far.
BoxOnly ==
  \A i \in OrigIds :
    \/ prog.inst[i].op \in {"phi", "select", "br", "ret", "other"}
    \/ /\ prog.inst[i].op = "call"
       /\ prog.inst[i].fn \in {"CAT_new", "CAT_set", "CAT_add", "CAT_sub",
                                "CAT_get"}
Start ==
  [env |-> [a \in prog.args |-> a], lw |-> [a \in prog.args |-> UNKNOWN],
   obs |-> {}]

\* the states after instruction i, the block before this one being prev
RunInst(i, prev, st) ==
  LET I == prog.inst[i]
      Bind(b) == [st EXCEPT !.env = Put(st.env, i, b)]
  IN  CASE I.op = "phi" ->
             {Bind(st.env[I.ops[j]]) :
                j \in {x \in 1..Len(I.ops) : I.blks[x] = prev}}
        [] I.op = "select" -> {Bind(st.env[I.ops[2]]), Bind(st.env[I.ops[3]])}
        [] IsCall(I, "CAT_new") ->
             {[st EXCEPT !.env = Put(st.env, i, i), !.lw = Put(st.lw, i, i)]}
        [] IsCATWrite(I) ->
             {[st EXCEPT !.lw = Put(st.lw, st.env[I.ops[1]], i)]}
        [] IsCall(I, "CAT_get") ->
             {[st EXCEPT !.obs = st.obs \cup {<<i, st.lw[st.env[I.ops[1]]]>>}]}
        [] OTHER -> {st}

RECURSIVE RunSeq(_, _, _)
RunSeq(ids, prev, S) ==
  IF ids = <<>> THEN S
  ELSE RunSeq(Tail(ids), prev, UNION {RunInst(Head(ids), prev, st) : st \in S})

\* what the paths of at most n more blocks observe, entering block b from prev
RECURSIVE Explore(_, _, _, _)
Explore(b, prev, S, n) ==
  LET S1 == RunSeq(prog.blocks[b], prev, S)
  IN  UNION {st.obs : st \in S1}
        \cup (IF n = 0 THEN {}
              ELSE UNION {Explore(prog.succ[b][j], b, S1, n - 1) :
                            j \in 1..Len(prog.succ[b])})

\* the most recent writes to the box of its operand that reach CAT_get g on
\* the paths that go at most twice through every block
LastWrites(g) ==
  {o[2] : o \in {x \in Explore(1, 0, {Start}, 2 * Len(prog.blocks)) : x[1] = g}}

\* the constant a write stores, Null if it is not a CAT_new or CAT_set of an
\* integer constant
WrittenConstant(w) ==
  IF w = UNKNOWN THEN Null
  ELSE IF IsCall(prog.inst[w], "CAT_new") /\ IsConstantInt(prog.inst[w].ops[1])
    THEN prog.inst[w].ops[1]
  ELSE IF IsCall(prog.inst[w], "CAT_set") /\ IsConstantInt(prog.inst[w].ops[2])
    THEN prog.inst[w].ops[2]
  ELSE Null

\* C27: when constantProp has replaced a CAT_get by the constant k, the
\* most recent write to the box of its operand is, on every path to that
\* CAT_get, a CAT_new or a CAT_set of the constant k.  Stated for the first
\* run on a function of CAT calls, phis and selects in which pass 1 has
\* erased nothing, so that the function analyzed is the function given.
C27_ConstantPropSound ==
  (pc = "done" /\ run = 1 /\ delFold = {} /\ BoxOnly) =>
    \A g \in DOMAIN replaced : \A w \in LastWrites(g) :
      WrittenConstant(w) = replaced[g]

====
